------------------------------ MODULE Spec2Model ------------------------------
(***************************************************************************)
(* Model of the merchant fee auditor (src/app.py): one run of the script   *)
(* on an uploaded CSV export, from pd.read_csv to the last widget, and a   *)
(* second run of the script on the same upload at a possibly later date.   *)
(*                                                                         *)
(* Text is a sequence of one-character strings, so that lower(), strip(),  *)
(* str.replace(), str.contains() and float() are computed on characters.   *)
(* Amounts are whole numbers; a float is a number or NaN, and a quotient   *)
(* is a fraction, +-inf or NaN as numpy's float64 division yields them.    *)
(***************************************************************************)
EXTENDS Integers, Sequences, FiniteSets

(***************************************************************************)
(* Bounds of the model.                                                    *)
(***************************************************************************)
\* rows of an uploaded table (at least one)
MaxRows == 2

\* columns of the tables whose header row is an arbitrary subset of the pool
MaxCols == 3

(***************************************************************************)
(* Text constants of the program and of the inputs.                        *)
(***************************************************************************)
s_fee == <<"f", "e", "e">>

s_fees == <<"f", "e", "e", "s">>

s_stripe_fee == <<"s", "t", "r", "i", "p", "e", " ", "f", "e", "e">>

s_amount == <<"a", "m", "o", "u", "n", "t">>

s_gross == <<"g", "r", "o", "s", "s">>

s_amount_gross == <<"a", "m", "o", "u", "n", "t", " ", "(", "g", "r", "o", "s", "s", ")">>

s_net == <<"n", "e", "t">>

s_amount_net == <<"a", "m", "o", "u", "n", "t", " ", "(", "n", "e", "t", ")">>

s_type == <<"t", "y", "p", "e">>

s_reporting_category == <<"r", "e", "p", "o", "r", "t", "i", "n", "g", " ", "c", "a", "t", "e", "g", "o", "r", "y">>

s_transaction_type == <<"t", "r", "a", "n", "s", "a", "c", "t", "i", "o", "n", " ", "t", "y", "p", "e">>

s_card_country == <<"c", "a", "r", "d", " ", "c", "o", "u", "n", "t", "r", "y">>

s_card_country_code == <<"c", "a", "r", "d", "_", "c", "o", "u", "n", "t", "r", "y", "_", "c", "o", "d", "e">>

s_pm_card_country == <<"p", "a", "y", "m", "e", "n", "t", "_", "m", "e", "t", "h", "o", "d", "_", "d", "e", "t", "a", "i", "l", "s", "_", "c", "a", "r", "d", "_", "c", "o", "u", "n", "t", "r", "y">>

s_created_utc == <<"c", "r", "e", "a", "t", "e", "d", " ", "(", "u", "t", "c", ")">>

s_created == <<"c", "r", "e", "a", "t", "e", "d">>

s_date == <<"d", "a", "t", "e">>

s_Month == <<"M", "o", "n", "t", "h">>

s_US == <<"U", "S">>

s_refund == <<"r", "e", "f", "u", "n", "d">>

s_nan == <<"n", "a", "n">>

h_Fee == <<"F", "e", "e">>

h_fees == <<"f", "e", "e", "s", " ">>

h_Stripe_Fee == <<"S", "t", "r", "i", "p", "e", " ", "F", "e", "e">>

h_Amount == <<"A", "m", "o", "u", "n", "t">>

h_Gross == <<" ", "G", "r", "o", "s", "s">>

h_Amount_Gross == <<"A", "m", "o", "u", "n", "t", " ", "(", "G", "r", "o", "s", "s", ")">>

h_Net == <<"N", "e", "t">>

h_Amount_Net == <<"A", "m", "o", "u", "n", "t", " ", "(", "N", "e", "t", ")">>

h_Type == <<"T", "y", "p", "e">>

h_Reporting_Category == <<"R", "e", "p", "o", "r", "t", "i", "n", "g", " ", "C", "a", "t", "e", "g", "o", "r", "y">>

h_Transaction_Type == <<" ", "t", "r", "a", "n", "s", "a", "c", "t", "i", "o", "n", " ", "t", "y", "p", "e", " ">>

h_Card_Country == <<"C", "a", "r", "d", " ", "C", "o", "u", "n", "t", "r", "y">>

h_card_country_code == <<"c", "a", "r", "d", "_", "c", "o", "u", "n", "t", "r", "y", "_", "c", "o", "d", "e">>

h_pm_card_country == <<"p", "a", "y", "m", "e", "n", "t", "_", "m", "e", "t", "h", "o", "d", "_", "d", "e", "t", "a", "i", "l", "s", "_", "c", "a", "r", "d", "_", "c", "o", "u", "n", "t", "r", "y">>

h_Created_UTC == <<"C", "r", "e", "a", "t", "e", "d", " ", "(", "U", "T", "C", ")">>

h_Created == <<"C", "r", "e", "a", "t", "e", "d">>

h_Description == <<"D", "e", "s", "c", "r", "i", "p", "t", "i", "o", "n">>

h_Fee_Amount == <<"F", "e", "e", " ", "A", "m", "o", "u", "n", "t">>

(***************************************************************************)
(* Text operations.                                                        *)
(***************************************************************************)
UpperCase == <<"A", "B", "C", "D", "E", "F", "G", "H", "I", "J", "K", "L", "M",
               "N", "O", "P", "Q", "R", "S", "T", "U", "V", "W", "X", "Y", "Z">>

LowerCase == <<"a", "b", "c", "d", "e", "f", "g", "h", "i", "j", "k", "l", "m",
               "n", "o", "p", "q", "r", "s", "t", "u", "v", "w", "x", "y", "z">>

Digits == <<"0", "1", "2", "3", "4", "5", "6", "7", "8", "9">>

\* characters of a month label in code-point order ('-' sorts before the digits)
LabelOrder == <<"-">> \o Digits

IndexOf(seq, x) == CHOOSE i \in 1..Len(seq) : seq[i] = x

IsIn(seq, x) == \E i \in 1..Len(seq) : seq[i] = x

\* the lower-case letter of every upper-case letter
ToLower == [c \in {UpperCase[i] : i \in 1..Len(UpperCase)} |-> LowerCase[IndexOf(UpperCase, c)]]

LowerChar(c) == IF c \in DOMAIN ToLower THEN ToLower[c] ELSE c

\* str.lower()
lower(s) == [i \in 1..Len(s) |-> LowerChar(s[i])]

RECURSIVE lstrip(_)
lstrip(s) == IF s # <<>> /\ Head(s) = " " THEN lstrip(Tail(s)) ELSE s

RECURSIVE rstrip(_)
rstrip(s) == IF s # <<>> /\ s[Len(s)] = " " THEN rstrip(SubSeq(s, 1, Len(s) - 1)) ELSE s

\* str.strip()
strip(s) == rstrip(lstrip(s))

\* str.replace(ch, ''), ch one character
replace(s, ch) == SelectSeq(s, LAMBDA c : c # ch)

\* sub in s
contains(s, sub) ==
    \E i \in 1..(Len(s) - Len(sub) + 1) : SubSeq(s, i, i + Len(sub) - 1) = sub

Rank(c) == IndexOf(LabelOrder, c)

\* a < b on texts of month labels and dates
RECURSIVE LexLess(_, _)
LexLess(a, b) ==
    IF b = <<>> THEN FALSE
    ELSE IF a = <<>> THEN TRUE
    ELSE IF Head(a) = Head(b) THEN LexLess(Tail(a), Tail(b))
    ELSE Rank(Head(a)) < Rank(Head(b))

IsDigits(s) == s # <<>> /\ \A i \in 1..Len(s) : IsIn(Digits, s[i])

RECURSIVE DigitsValue(_)
DigitsValue(s) ==
    IF s = <<>> THEN 0
    ELSE 10 * DigitsValue(SubSeq(s, 1, Len(s) - 1)) + (IndexOf(Digits, s[Len(s)]) - 1)

(***************************************************************************)
(* Values of a cell: a string, a float (whole-valued here) or NaN/NaT.     *)
(***************************************************************************)
Str(s) == [k |-> "str", s |-> s, v |-> 0]

Num(v) == [k |-> "num", s |-> <<>>, v |-> v]

NaN == [k |-> "nan", s |-> <<>>, v |-> 0]

\* the result of a float64 division: a fraction n/d with d > 0, inf, -inf or nan
Frac(n, d) == [k |-> "num", n |-> n, d |-> d]

Inf == [k |-> "inf", n |-> 1, d |-> 0]

NegInf == [k |-> "inf", n |-> -1, d |-> 0]

NaNQ == [k |-> "nan", n |-> 0, d |-> 0]

Zero == Frac(0, 1)

\* a / b on float64 values (numpy: x/0 is +-inf, 0/0 is nan, no exception)
FDiv(a, b) ==
    IF b = 0 THEN (IF a = 0 THEN NaNQ ELSE IF a > 0 THEN Inf ELSE NegInf)
    ELSE IF b > 0 THEN Frac(a, b) ELSE Frac(-a, -b)

\* q * m for a whole number m > 0
FMul(q, m) == IF q.k = "num" THEN Frac(q.n * m, q.d) ELSE q

Abs(x) == IF x < 0 THEN -x ELSE x

\* None, distinct from every text
None == <<"None">>

(***************************************************************************)
(* The uploads.  A table is a header row and rows of cell texts.  The      *)
(* header names are drawn from a pool of raw spellings (mixed case,        *)
(* surrounding blanks) of every accepted alias and of two names that are   *)
(* no alias; their normalised forms are pairwise distinct.  A row is a     *)
(* transaction; a column spelled as an alias of a field holds the          *)
(* transaction's text for that field.                                      *)
(***************************************************************************)
Pool == <<
    [raw |-> h_Fee, field |-> "fee"],
    [raw |-> h_fees, field |-> "fee"],
    [raw |-> h_Stripe_Fee, field |-> "fee"],
    [raw |-> h_Amount, field |-> "gross"],
    [raw |-> h_Gross, field |-> "gross"],
    [raw |-> h_Amount_Gross, field |-> "gross"],
    [raw |-> h_Net, field |-> "net"],
    [raw |-> h_Amount_Net, field |-> "net"],
    [raw |-> h_Type, field |-> "type"],
    [raw |-> h_Reporting_Category, field |-> "type"],
    [raw |-> h_Transaction_Type, field |-> "type"],
    [raw |-> h_Card_Country, field |-> "country"],
    [raw |-> h_card_country_code, field |-> "country"],
    [raw |-> h_pm_card_country, field |-> "country"],
    [raw |-> h_Created_UTC, field |-> "created"],
    [raw |-> h_Created, field |-> "created"],
    [raw |-> h_Description, field |-> "other"],
    [raw |-> h_Fee_Amount, field |-> "fee"] >>

Transactions == <<
    \* a domestic charge
    [fee |-> <<"2", "5">>, gross |-> <<"1", "0", "0", "0">>, net |-> <<"9", "7", "5">>,
     type |-> <<"c", "h", "a", "r", "g", "e">>, country |-> <<"U", "S">>,
     created |-> <<"2", "0", "2", "4", "-", "0", "1", "-", "1", "5">>, other |-> <<"a">>],
    \* a refund of a foreign card: negative gross and fee
    [fee |-> <<"-", "5">>, gross |-> <<"-", "2", "0", "0">>, net |-> <<"-", "2", "0", "5">>,
     type |-> <<"R", "e", "f", "u", "n", "d">>, country |-> <<"C", "A">>,
     created |-> <<"2", "0", "2", "4", "-", "0", "1", "-", "2", "0">>, other |-> <<"b">>],
    \* currency formatting, a type that contains REFUND
    [fee |-> <<"$", "3", "0">>, gross |-> <<"$", "1", ",", "0", "0", "0">>, net |-> <<"9", "7", "0">>,
     type |-> <<"p", "a", "r", "t", "_", "R", "E", "F", "U", "N", "D">>, country |-> <<"G", "B">>,
     created |-> <<"2", "0", "2", "4", "-", "0", "2", "-", "0", "3">>, other |-> <<"c">>],
    \* missing cells
    [fee |-> <<>>, gross |-> <<"5", "0", "0">>, net |-> <<>>,
     type |-> <<>>, country |-> <<>>,
     created |-> <<>>, other |-> <<>>],
    \* a foreign charge that cancels the refund above in its month
    [fee |-> <<"5">>, gross |-> <<"2", "0", "0">>, net |-> <<"1", "9", "5">>,
     type |-> <<"c", "h", "a", "r", "g", "e">>, country |-> <<"C", "A">>,
     created |-> <<"2", "0", "2", "4", "-", "0", "1", "-", "0", "5">>, other |-> <<"d">>],
    \* a fee that is no number
    [fee |-> <<"1", "2", "x">>, gross |-> <<"1", "0", "0">>, net |-> <<"8", "8">>,
     type |-> <<"c", "h", "a", "r", "g", "e">>, country |-> <<"U", "S">>,
     created |-> <<"2", "0", "2", "4", "-", "0", "2", "-", "1", "0">>, other |-> <<"e">>],
    \* a zero amount, a net that is no number, a date that is no date
    [fee |-> <<"1", "0">>, gross |-> <<"0">>, net |-> <<"-">>,
     type |-> <<"f", "e", "e">>, country |-> <<"u", "s">>,
     created |-> <<"s", "o", "o", "n">>, other |-> <<"f">>] >>

\* header rows of typical exports, as positions of the pool
Layouts == {
    <<1, 4>>,
    <<1, 4, 12>>,
    <<2, 5, 9>>,
    <<1, 4, 16>>,
    <<3, 6, 7, 9, 12, 15>>,
    <<4, 9>>,
    <<1, 7, 16>>,
    <<1, 4, 9, 13, 15, 16>> }

\* the dates the script may run on: the first run on the first of them
Days == {<<"2", "0", "2", "4", "-", "0", "1", "-", "3", "1">>,
         <<"2", "0", "2", "4", "-", "0", "2", "-", "0", "1">>}

Min(S) == CHOOSE x \in S : \A y \in S : x <= y

RECURSIVE Ascending(_)
Ascending(S) == IF S = {} THEN <<>> ELSE <<Min(S)>> \o Ascending(S \ {Min(S)})

SeqsUpTo(S, n) == UNION {[1..m -> S] : m \in 1..n}

\* the table with the pool's columns cols and the transactions txs
MakeFile(cols, txs) ==
    [header |-> [c \in 1..Len(cols) |-> Pool[cols[c]].raw],
     rows   |-> [r \in 1..Len(txs) |->
                   [c \in 1..Len(cols) |-> Transactions[txs[r]][Pool[cols[c]].field]]]]

EmptyFile == [header |-> <<>>, rows |-> <<>>]

Files ==
    {MakeFile(cols, txs) : cols \in Layouts, txs \in SeqsUpTo(1..Len(Transactions), MaxRows)}
    \cup {MakeFile(Ascending(H), <<t>>) :
            H \in {G \in SUBSET (1..Len(Pool)) : G # {} /\ Cardinality(G) <= MaxCols},
            t \in 1..Len(Transactions)}
    \cup {EmptyFile}

(***************************************************************************)
(* The state of a run.                                                     *)
(***************************************************************************)
VARIABLES
    uploaded_file,        \* the upload held by st.file_uploader
    today,                \* the date of the environment the script runs in
    pc,                   \* the block of the script that runs next
    df,                   \* the DataFrame: columns and rows of cell values
    col_fee, col_gross, col_net, col_type, col_country,
    total_gross, total_fees, effective_rate, intl_fees_estimated, refund_fees,
    monthly,              \* the grouped frame, one record per month, ascending
    out,                  \* the elements the run has put on the page, in order
    divisors,             \* the denominators line 91's division was evaluated with
    rerun,                \* whether this is the second run on the upload
    prev                  \* the report of the first run

vars == <<uploaded_file, today, pc, df, col_fee, col_gross, col_net, col_type,
          col_country, total_gross, total_fees, effective_rate,
          intl_fees_estimated, refund_fees, monthly, out, divisors, rerun, prev>>

locals == <<df, col_fee, col_gross, col_net, col_type, col_country, total_gross,
            total_fees, effective_rate, intl_fees_estimated, refund_fees, monthly>>

resolved == <<col_fee, col_gross, col_net, col_type, col_country>>

metrics == <<total_gross, total_fees, effective_rate, intl_fees_estimated,
             refund_fees, divisors>>

env == <<uploaded_file, today, rerun, prev>>

EmptyFrame == [columns |-> <<>>, rows |-> <<>>]

\* what a run hands to the page: the elements and the values they show
Report ==
    [out |-> out, total_gross |-> total_gross, total_fees |-> total_fees,
     effective_rate |-> effective_rate, intl_leakage |-> intl_fees_estimated,
     refund_fees |-> refund_fees, monthly |-> monthly]

EmptyReport ==
    [out |-> <<>>, total_gross |-> 0, total_fees |-> 0, effective_rate |-> Zero,
     intl_leakage |-> Zero, refund_fees |-> 0, monthly |-> <<>>]

Fresh ==
    /\ pc = "load"
    /\ df = EmptyFrame
    /\ col_fee = None /\ col_gross = None /\ col_net = None
    /\ col_type = None /\ col_country = None
    /\ total_gross = 0 /\ total_fees = 0 /\ effective_rate = Zero
    /\ intl_fees_estimated = Zero /\ refund_fees = 0
    /\ monthly = <<>>
    /\ out = <<>>
    /\ divisors = {}

FirstDay == CHOOSE d \in Days : \A e \in Days : ~LexLess(e, d)

Init ==
    /\ uploaded_file \in Files
    /\ today = FirstDay
    /\ rerun = FALSE
    /\ prev = EmptyReport
    /\ Fresh

Element(kind, label) == [kind |-> kind, label |-> label]

\* except Exception as e: st.error(f"Something went wrong: {e}")
Raise(e) ==
    /\ out' = Append(out, Element("error", "Something went wrong: " \o e))
    /\ pc' = "error"

(***************************************************************************)
(* Load Data, Data Cleaning: pd.read_csv and the normalised column names.  *)
(***************************************************************************)
\* texts pd.read_csv reads as a missing value
NaTexts == {<<>>, <<"N", "A">>, <<"N", "/", "A">>, <<"n", "/", "a">>, s_nan,
            <<"N", "a", "N">>, <<"n", "u", "l", "l">>}

read_cell(text) == IF text \in NaTexts THEN NaN ELSE Str(text)

read_csv(file) ==
    [columns |-> file.header,
     rows    |-> [r \in 1..Len(file.rows) |->
                    [c \in 1..Len(file.header) |-> read_cell(file.rows[r][c])]]]

normalize_columns(frame) ==
    [frame EXCEPT !.columns = [c \in 1..Len(frame.columns) |-> strip(lower(frame.columns[c]))]]

LoadData ==
    /\ pc = "load"
    /\ IF uploaded_file.header = <<>>
       THEN /\ Raise("No columns to parse from file")
            /\ UNCHANGED locals
       ELSE /\ df' = normalize_columns(read_csv(uploaded_file))
            /\ pc' = "resolve"
            /\ UNCHANGED <<resolved, total_gross, total_fees, effective_rate,
                           intl_fees_estimated, refund_fees, monthly, out>>
    /\ UNCHANGED <<env, divisors>>

(***************************************************************************)
(* get_col and the five resolved columns.                                  *)
(***************************************************************************)
FeeAliases == <<s_fee, s_fees, s_stripe_fee>>

GrossAliases == <<s_amount, s_gross, s_amount_gross>>

NetAliases == <<s_net, s_amount_net>>

TypeAliases == <<s_type, s_reporting_category, s_transaction_type>>

CountryAliases == <<s_card_country, s_card_country_code, s_pm_card_country>>

\* get_col with the options tried from the last to the first
RECURSIVE get_col_last(_, _)
get_col_last(columns, options) ==
    IF options = <<>> THEN None
    ELSE IF IsIn(columns, options[Len(options)]) THEN options[Len(options)]
    ELSE get_col_last(columns, SubSeq(options, 1, Len(options) - 1))

RECURSIVE get_col(_, _)
get_col(columns, options) ==
    IF options = <<>> THEN None
    ELSE IF IsIn(columns, Head(options)) THEN Head(options)
    ELSE get_col(columns, Tail(options))

ResolveColumns ==
    /\ pc = "resolve"
    /\ col_fee' = get_col(df.columns, FeeAliases)
    /\ col_gross' = get_col(df.columns, GrossAliases)
    /\ col_net' = get_col(df.columns, NetAliases)
    /\ col_type' = get_col(df.columns, TypeAliases)
    /\ col_country' = get_col(df.columns, CountryAliases)
    /\ pc' = "check"
    /\ UNCHANGED <<env, df, metrics, monthly, out>>

\* the check with 'and' for 'or'
missing_both(fee, gross) == fee = None /\ gross = None

\* if not col_fee or not col_gross: st.error(...); st.stop()
missing_required(fee, gross) == fee = None \/ gross = None

ColumnMismatch == "Error: We couldn't find 'Fee' or 'Gross Amount' columns."

CheckRequired ==
    /\ pc = "check"
    /\ IF missing_required(col_fee, col_gross)
       THEN /\ out' = Append(out, Element("error", ColumnMismatch))
            /\ pc' = "stopped"
       ELSE /\ pc' = "cleanup"
            /\ out' = out
    /\ UNCHANGED <<env, df, resolved, metrics, monthly>>

(***************************************************************************)
(* Numeric Cleanup: astype(str), the two replaces, astype(float).          *)
(***************************************************************************)
\* astype(str) of a cell
astype_str(cell) == IF cell.k = "str" THEN cell.s ELSE s_nan

\* the texts float() accepts, among the texts of this model: nan, or an
\* optionally negative run of digits
is_float(s) ==
    \/ lower(s) = s_nan
    \/ IsDigits(s)
    \/ (s # <<>> /\ Head(s) = "-" /\ IsDigits(Tail(s)))

\* float(s), for a text float() accepts
float(s) ==
    IF lower(s) = s_nan THEN NaN
    ELSE IF Head(s) = "-" THEN Num(-DigitsValue(Tail(s)))
    ELSE Num(DigitsValue(s))

\* the text of a cell once ',' and '$' are removed
cleaned(cell) == replace(replace(astype_str(cell), ","), "$")

ColIndex(frame, name) == IndexOf(frame.columns, name)

Column(frame, name) == [r \in 1..Len(frame.rows) |-> frame.rows[r][ColIndex(frame, name)]]

\* for col in [col_fee, col_gross, col_net]: if col: ...
numeric_columns(fee, gross, net) == SelectSeq(<<fee, gross, net>>, LAMBDA c : c # None)

can_clean(frame, names) ==
    \A n \in 1..Len(names) : \A r \in 1..Len(frame.rows) :
        is_float(cleaned(frame.rows[r][ColIndex(frame, names[n])]))

clean(frame, names) ==
    [frame EXCEPT !.rows =
        [r \in 1..Len(frame.rows) |->
            [c \in 1..Len(frame.columns) |->
                IF IsIn(names, frame.columns[c])
                THEN float(cleaned(frame.rows[r][c]))
                ELSE frame.rows[r][c]]]]

NumericCleanup ==
    /\ pc = "cleanup"
    /\ LET names == numeric_columns(col_fee, col_gross, col_net) IN
       IF can_clean(df, names)
       THEN /\ df' = clean(df, names)
            /\ pc' = "metrics"
            /\ out' = out
       ELSE /\ Raise("could not convert string to float")
            /\ df' = df
    /\ UNCHANGED <<env, resolved, metrics, monthly>>

(***************************************************************************)
(* Metric Calculations.                                                    *)
(***************************************************************************)
RECURSIVE Sum(_)
Sum(s) == IF s = <<>> THEN 0 ELSE Head(s) + Sum(Tail(s))

\* Series.sum() of float cells: NaN is skipped
series_sum(cells) == Sum([i \in 1..Len(cells) |-> IF cells[i].k = "num" THEN cells[i].v ELSE 0])

\* Series.abs()
series_abs(cells) ==
    [i \in 1..Len(cells) |-> IF cells[i].k = "num" THEN Num(Abs(cells[i].v)) ELSE cells[i]]

RECURSIVE Take(_, _)
Take(rows, mask) ==
    IF rows = <<>> THEN <<>>
    ELSE (IF Head(mask) THEN <<Head(rows)>> ELSE <<>>) \o Take(Tail(rows), Tail(mask))

\* df[mask], mask a boolean Series over the rows
Filter(frame, mask) == [frame EXCEPT !.rows = Take(frame.rows, mask)]

\* df[df[col_gross] > 0]: NaN > 0 is False
is_charge(frame, gross) ==
    [r \in 1..Len(frame.rows) |->
       LET g == frame.rows[r][ColIndex(frame, gross)] IN g.k = "num" /\ g.v > 0]

calc_total_gross(frame, gross) ==
    series_sum(Column(Filter(frame, is_charge(frame, gross)), gross))

calc_total_fees(frame, fee) == series_sum(series_abs(Column(frame, fee)))

\* the guard with >= for >
rate_guard_nonneg(tg) == tg >= 0

\* (total_fees / total_gross) * 100 if total_gross > 0 else 0
rate_guard(tg) == tg > 0

calc_effective_rate(tf, tg) == IF rate_guard(tg) THEN FMul(FDiv(tf, tg), 100) ELSE Zero

\* df[df[col_country] != 'US']: a missing country is not 'US'
is_intl(frame, country) ==
    [r \in 1..Len(frame.rows) |-> frame.rows[r][ColIndex(frame, country)] # Str(s_US)]

\* the estimate over the charges only, as total_gross is
calc_intl_fees_charges(frame, gross, country) ==
    IF country # None
    THEN LET intl_txns == Filter(Filter(frame, is_charge(frame, gross)), is_intl(frame, country))
             intl_volume == series_sum(Column(intl_txns, gross))
         IN  Frac(intl_volume * 15, 1000)
    ELSE Zero

calc_intl_fees(frame, gross, country) ==
    IF country # None
    THEN LET intl_txns == Filter(frame, is_intl(frame, country))
             intl_volume == series_sum(Column(intl_txns, gross))
         IN  Frac(intl_volume * 15, 1000)
    ELSE Zero

\* the match without case=False
is_refund_cased(frame, type) ==
    [r \in 1..Len(frame.rows) |->
       contains(astype_str(frame.rows[r][ColIndex(frame, type)]), s_refund)]

\* astype(str).str.contains('refund', case=False, na=False)
is_refund(frame, type) ==
    [r \in 1..Len(frame.rows) |->
       contains(lower(astype_str(frame.rows[r][ColIndex(frame, type)])), lower(s_refund))]

calc_refund_fees(frame, fee, type) ==
    IF type # None
    THEN LET refunds == Filter(frame, is_refund(frame, type))
         IN  series_sum(series_abs(Column(refunds, fee)))
    ELSE 0

MetricCalculations ==
    /\ pc = "metrics"
    /\ total_gross' = calc_total_gross(df, col_gross)
    /\ total_fees' = calc_total_fees(df, col_fee)
    /\ effective_rate' = calc_effective_rate(total_fees', total_gross')
    /\ divisors' = IF rate_guard(total_gross') THEN divisors \cup {total_gross'} ELSE divisors
    /\ intl_fees_estimated' = calc_intl_fees(df, col_gross, col_country)
    /\ refund_fees' = calc_refund_fees(df, col_fee, col_type)
    /\ pc' = "dashboard"
    /\ UNCHANGED <<env, df, resolved, monthly, out>>

(***************************************************************************)
(* Dashboard UI: the four metrics, shown before the monthly trend.         *)
(***************************************************************************)
\* effective_rate > 3.2
rate_is_high(rate) ==
    \/ (rate.k = "inf" /\ rate.n > 0)
    \/ (rate.k = "num" /\ rate.n * 10 > 32 * rate.d)

DashboardUI ==
    /\ pc = "dashboard"
    /\ out' = out \o
         <<Element("subheader", "The Audit Results"),
           Element("metric", "Total Processed"),
           Element("metric", "Total Fees Paid"),
           Element("metric", "Effective Rate")>> \o
         (IF rate_is_high(effective_rate)
          THEN <<Element("warning", "Rate is High (>3.2%)")>> ELSE <<>>) \o
         <<Element("metric", "Est. Intl Surcharge"),
           Element("divider", "")>>
    /\ pc' = "trend"
    /\ UNCHANGED <<env, df, resolved, metrics, monthly>>

(***************************************************************************)
(* Charts & Tables: the monthly trend and the monthly breakdown.           *)
(***************************************************************************)
\* the texts pd.to_datetime parses, among the texts of this model: YYYY-MM-DD
is_date(s) ==
    /\ Len(s) = 10
    /\ s[5] = "-" /\ s[8] = "-"
    /\ IsDigits(SubSeq(s, 1, 4)) /\ IsDigits(SubSeq(s, 6, 7)) /\ IsDigits(SubSeq(s, 9, 10))
    /\ DigitsValue(SubSeq(s, 6, 7)) \in 1..12
    /\ DigitsValue(SubSeq(s, 9, 10)) \in 1..31

\* pd.to_datetime of a cell that parses: a Timestamp, NaT for a missing value
to_datetime(cell) == IF cell.k = "str" THEN Str(cell.s) ELSE NaN

can_parse_dates(cells) ==
    \A i \in 1..Len(cells) : cells[i].k = "str" => is_date(cells[i].s)

\* .dt.strftime('%Y-%m'): NaT gives NaN
strftime_Ym(ts) == IF ts.k = "str" THEN Str(SubSeq(ts.s, 1, 7)) ELSE NaN

\* the column the dates are read from; None when the current date is used
date_source(columns) ==
    IF IsIn(columns, s_created_utc) THEN s_created_utc
    ELSE IF IsIn(columns, s_created) THEN s_created
    ELSE None

\* df['date']: parsed from the date column, else today's date in every row
date_column(frame, now) ==
    LET src == date_source(frame.columns) IN
    IF src # None
    THEN [r \in 1..Len(frame.rows) |-> to_datetime(frame.rows[r][ColIndex(frame, src)])]
    ELSE [r \in 1..Len(frame.rows) |-> Str(now)]

\* df[name] = cells, for a new column
AddColumn(frame, name, cells) ==
    [columns |-> Append(frame.columns, name),
     rows    |-> [r \in 1..Len(frame.rows) |-> Append(frame.rows[r], cells[r])]]

RECURSIVE SortLabels(_)
SortLabels(S) ==
    IF S = {} THEN <<>>
    ELSE LET m == CHOOSE x \in S : \A y \in S : ~LexLess(y, x)
         IN  <<m>> \o SortLabels(S \ {m})

\* grouping that compares the year of the label only
in_group_year(frame, label) ==
    [r \in 1..Len(frame.rows) |->
       LET m == frame.rows[r][ColIndex(frame, s_Month)]
       IN  m.k = "str" /\ SubSeq(m.s, 1, 4) = SubSeq(label, 1, 4)]

\* the rows groupby puts in the group of a label (rows without a label are dropped)
in_group(frame, label) ==
    [r \in 1..Len(frame.rows) |-> frame.rows[r][ColIndex(frame, s_Month)] = Str(label)]

\* df.groupby('Month')[[col_gross, col_fee]].sum().reset_index()
groupby_month(frame, gross, fee) ==
    LET months == Column(frame, s_Month)
        labels == SortLabels({months[r].s : r \in {q \in 1..Len(months) : months[q].k = "str"}})
    IN  [b \in 1..Len(labels) |->
           LET group == Filter(frame, in_group(frame, labels[b]))
           IN  [Month |-> labels[b],
                gross |-> series_sum(Column(group, gross)),
                fee   |-> series_sum(Column(group, fee))]]

MonthlyFeeTrend ==
    /\ pc = "trend"
    /\ LET src == date_source(df.columns)
           shown == Append(out, Element("subheader", "Monthly Fee Trend"))
       IN
       IF src # None /\ ~can_parse_dates(Column(df, src))
       THEN /\ out' = Append(shown, Element("error", "Something went wrong: Unknown datetime string format"))
            /\ pc' = "error"
            /\ UNCHANGED <<df, monthly>>
       ELSE LET dated == AddColumn(df, s_date, date_column(df, today))
                frame == AddColumn(dated, s_Month,
                                   [r \in 1..Len(dated.rows) |->
                                      strftime_Ym(dated.rows[r][ColIndex(dated, s_date)])])
            IN  /\ df' = frame
                /\ monthly' = groupby_month(frame, col_gross, col_fee)
                /\ out' = Append(shown, Element("chart", "Fees Paid by Month"))
                /\ pc' = "table"
    /\ UNCHANGED <<env, resolved, metrics>>

\* (monthly[col_fee].abs() / monthly[col_gross]) * 100
real_rate(fee_sum, gross_sum) == FMul(FDiv(Abs(fee_sum), gross_sum), 100)

MonthlyBreakdown ==
    /\ pc = "table"
    /\ monthly' = [b \in 1..Len(monthly) |->
                     [Month |-> monthly[b].Month, gross |-> monthly[b].gross,
                      fee |-> monthly[b].fee,
                      RealRate |-> real_rate(monthly[b].fee, monthly[b].gross)]]
    /\ out' = out \o <<Element("subheader", "Monthly Breakdown"),
                       Element("dataframe", "Month, gross, Real Rate")>>
    /\ pc' = "done"
    /\ UNCHANGED <<env, df, resolved, metrics>>

(***************************************************************************)
(* The script runs again on the same upload (any interaction with the page *)
(* reruns it), on the same or a later date.                                *)
(***************************************************************************)
Ended == pc \in {"done", "error", "stopped"}

Rerun ==
    /\ Ended
    /\ ~rerun
    /\ rerun' = TRUE
    /\ prev' = Report
    /\ today' \in {d \in Days : ~LexLess(d, today)}
    /\ uploaded_file' = uploaded_file
    /\ pc' = "load"
    /\ df' = EmptyFrame
    /\ col_fee' = None /\ col_gross' = None /\ col_net' = None
    /\ col_type' = None /\ col_country' = None
    /\ total_gross' = 0 /\ total_fees' = 0 /\ effective_rate' = Zero
    /\ intl_fees_estimated' = Zero /\ refund_fees' = 0
    /\ monthly' = <<>>
    /\ out' = <<>>
    /\ divisors' = {}

Next ==
    \/ LoadData
    \/ ResolveColumns
    \/ CheckRequired
    \/ NumericCleanup
    \/ MetricCalculations
    \/ DashboardUI
    \/ MonthlyFeeTrend
    \/ MonthlyBreakdown
    \/ Rerun

Spec == Init /\ [][Next]_vars


(***************************************************************************)
(* Properties.                                                             *)
(***************************************************************************)
\* the case-folded, trimmed header names of the upload
Headers == {strip(lower(uploaded_file.header[c])) : c \in 1..Len(uploaded_file.header)}

Accepted(aliases) == {aliases[i] : i \in 1..Len(aliases)}

HasKind(kind) == \E i \in 1..Len(out) : out[i].kind = kind

ReportShown == HasKind("metric") \/ HasKind("chart") \/ HasKind("dataframe")

\* the metric block has run in this run
MetricsComputed == pc \in {"dashboard", "trend", "table", "done"} \/ HasKind("metric")

Rows == 1..Len(df.rows)

\* the cell of row r of df in the column called name
Cell(r, name) == df.rows[r][IndexOf(df.columns, name)]

\* the numeric value of a cell of df, 0 for NaN
Value(r, name) == IF Cell(r, name).k = "num" THEN Cell(r, name).v ELSE 0

RECURSIVE SumOver(_, _)
\* the sum of amount[r] over the rows r in the set S
SumOver(S, amount) ==
    IF S = {} THEN 0
    ELSE LET r == CHOOSE x \in S : TRUE IN amount[r] + SumOver(S \ {r}, amount)

Gross == [r \in Rows |-> Value(r, col_gross)]

AbsFee == [r \in Rows |-> Abs(Value(r, col_fee))]

\* the fraction q equals n / d
IsQuotient(q, n, d) == q.k = "num" /\ q.d # 0 /\ q.n * d = n * q.d

MissingRequired ==
    /\ uploaded_file.header # <<>>
    /\ LET headers == Headers IN
       \/ headers \cap Accepted(FeeAliases) = {}
       \/ headers \cap Accepted(GrossAliases) = {}

\* C1: a table without an accepted fee alias or without an accepted gross
\* alias gets the column-mismatch error and nothing else: the run never
\* enters numeric cleanup, the metric block or an output step.
C1_MismatchHalts ==
    MissingRequired =>
        /\ pc \in {"load", "resolve", "check", "stopped"}
        /\ out = IF pc = "stopped" THEN <<Element("error", ColumnMismatch)>> ELSE <<>>
        /\ df.rows = read_csv(uploaded_file).rows \/ pc = "load"
        /\ Report = [EmptyReport EXCEPT !.out = out]

C1_Witness ==
    /\ pc = "stopped"
    /\ Headers \cap Accepted(FeeAliases) = {}
    /\ Headers \cap Accepted(GrossAliases) # {}

Earliest(aliases, headers) ==
    LET present == {i \in 1..Len(aliases) : aliases[i] \in headers}
    IN  IF present = {} THEN None ELSE aliases[Min(present)]

\* C2: each resolved column is the earliest alias of its list that is among
\* the normalised headers, and None exactly when no alias of the list is.
C2_EarliestAlias ==
    pc \notin {"load", "resolve"} =>
        LET headers == Headers IN
        /\ col_fee = Earliest(FeeAliases, headers)
        /\ col_gross = Earliest(GrossAliases, headers)
        /\ col_net = Earliest(NetAliases, headers)
        /\ col_type = Earliest(TypeAliases, headers)
        /\ col_country = Earliest(CountryAliases, headers)

C2_Witness ==
    /\ pc = "check"
    /\ col_gross = s_amount /\ s_amount_gross \in Headers
    /\ col_fee = s_stripe_fee
    /\ col_net = None

\* C3: a run that shows an error has shown no metric, chart or table.
C3_NoPartialOutput == HasKind("error") => ~ReportShown

\* C4: the second run on the same upload reports what the first run
\* reported, whatever the date of each run.
C4_SameReport == (rerun /\ Ended) => Report = prev

\* C5: every monthly bucket's real rate is abs(fee_sum) / gross_sum * 100,
\* and 0 when the bucket's gross sum is 0; it is never inf or NaN.
C5_RealRateGuarded ==
    pc = "done" =>
        \A b \in 1..Len(monthly) :
            IF monthly[b].gross = 0
            THEN monthly[b].RealRate = Zero
            ELSE IsQuotient(monthly[b].RealRate, Abs(monthly[b].fee) * 100, monthly[b].gross)

\* C6: effective_rate is 0 when total_gross (the sum of the positive gross
\* amounts) is 0 and total_fees / total_gross * 100 otherwise, and the
\* division is never evaluated with denominator 0.
C6_EffectiveRate ==
    MetricsComputed =>
        /\ total_gross = SumOver({r \in Rows : Gross[r] > 0}, Gross)
        /\ IF total_gross = 0
           THEN effective_rate = Zero
           ELSE IsQuotient(effective_rate, total_fees * 100, total_gross)
        /\ 0 \notin divisors

C6_Witness ==
    /\ pc = "dashboard"
    /\ total_gross = 0
    /\ total_fees > 0

\* C7: intl_leakage is 0.015 times the signed sum of gross over exactly the
\* rows whose country is not "US", and 0 when no country column is resolved.
C7_IntlLeakage ==
    MetricsComputed =>
        IF col_country = None
        THEN intl_fees_estimated = Zero
        ELSE IsQuotient(intl_fees_estimated,
                        15 * SumOver({r \in Rows : Cell(r, col_country) # Str(s_US)}, Gross),
                        1000)

C7_Witness ==
    /\ pc = "dashboard"
    /\ col_country # None
    /\ intl_fees_estimated.n < 0
    /\ \E r \in Rows : Cell(r, col_country) = Str(s_US)

MentionsRefund(cell) ==
    /\ cell.k = "str"
    /\ \E i \in 1..Len(cell.s) :
          /\ i + Len(s_refund) - 1 <= Len(cell.s)
          /\ \A j \in 1..Len(s_refund) : LowerChar(cell.s[i + j - 1]) = s_refund[j]

\* C8: refund_fees is the sum of abs(fee) over exactly the rows whose type
\* contains "refund" in any letter case, 0 when no type column is resolved,
\* and 0 <= refund_fees <= total_fees.
C8_RefundFees ==
    MetricsComputed =>
        /\ refund_fees =
             IF col_type = None THEN 0
             ELSE SumOver({r \in Rows : MentionsRefund(Cell(r, col_type))}, AbsFee)
        /\ 0 <= refund_fees
        /\ refund_fees <= total_fees

C8_Witness ==
    /\ pc = "dashboard"
    /\ col_type # None
    /\ 0 < refund_fees /\ refund_fees < total_fees
    /\ \E r \in Rows :
          /\ MentionsRefund(Cell(r, col_type))
          /\ ~contains(Cell(r, col_type).s, s_refund)

\* the rows of df with a valid date
Dated == {r \in Rows : Cell(r, s_date).k = "str"}

YearMonth(r) == SubSeq(Cell(r, s_date).s, 1, 7)

RECURSIVE SumBuckets(_)
SumBuckets(n) == IF n = 0 THEN 0 ELSE SumBuckets(n - 1) + monthly[n].gross

\* C9: the gross sums of the buckets add up to total_gross plus the
\* non-positive gross amounts, both taken over the rows with a valid date;
\* every dated row is in exactly one bucket, that of the YYYY-MM of its date.
C9_MonthlyGross ==
    pc \in {"table", "done"} =>
        /\ SumBuckets(Len(monthly)) =
             SumOver({r \in Dated : Gross[r] > 0}, Gross)
             + SumOver({r \in Dated : Gross[r] <= 0}, Gross)
        /\ \A r \in Dated :
              Cardinality({b \in 1..Len(monthly) : monthly[b].Month = YearMonth(r)}) = 1
        /\ \A b \in 1..Len(monthly) :
              monthly[b].gross =
                 SumOver({r \in Dated : YearMonth(r) = monthly[b].Month}, Gross)

C9_Witness ==
    /\ pc = "done"
    /\ Len(monthly) = 2
    /\ SumBuckets(Len(monthly)) < total_gross

IsNumber(text) ==
    LET t == replace(replace(text, ","), "$")
    IN  IsDigits(t) \/ (t # <<>> /\ Head(t) = "-" /\ IsDigits(Tail(t)))

NonNumericValue ==
    \E c \in 1..Len(uploaded_file.header) : \E r \in 1..Len(uploaded_file.rows) :
        /\ strip(lower(uploaded_file.header[c])) \in {col_fee, col_gross, col_net}
        /\ ~IsNumber(uploaded_file.rows[r][c])

\* C10: a value of the fee, gross or net column that is no number once ','
\* and '$' are removed, an empty cell included, ends the run in the error
\* state before any metric is computed.
C10_AllOrNothing == NonNumericValue => ~MetricsComputed

=============================================================================
